---- MODULE Spec2Model ----
(***************************************************************************)
(* Model of the vault-gitops reconciler: the apply engine                  *)
(* (pkg/gitops/apply.go), its helpers (normalisation, templates, lint) and *)
(* the signed-commit gate (pkg/git_repository/git.go).                     *)
(*                                                                         *)
(* Strings that the code inspects character by character (namespace, path, *)
(* name) are sequences of one-character strings; "nil"/"" is <<>>.         *)
(***************************************************************************)
EXTENDS Integers, Sequences, FiniteSets, TLC

\* ------------------------------------------------------------------ bounds
MaxRuns == 2        \* Apply runs per behaviour
MaxRev == 1         \* largest revision a batch declares
MaxCommits == 3     \* commits pushed to the branch per behaviour
MaxTime == 2        \* clock values and committer timestamps 0..MaxTime
MaxRequired == 2    \* largest configured number of required signatures
MaxBatch == 3       \* documents of a batch handed to Lint

\* ------------------------------------------------------------ small helpers
NoKey == <<"-">>

Range(s) == {s[i] : i \in 1..Len(s)}

RECURSIVE Perms(_)
Perms(S) ==
    IF S = {} THEN {<<>>}
    ELSE UNION {{<<x>> \o p : p \in Perms(S \ {x})} : x \in S}

RECURSIVE TrimLeftSlash(_)
TrimLeftSlash(s) ==
    IF s # <<>> /\ Head(s) = "/" THEN TrimLeftSlash(Tail(s)) ELSE s

RECURSIVE TrimRightSlash(_)
TrimRightSlash(s) ==
    IF s # <<>> /\ s[Len(s)] = "/" THEN TrimRightSlash(SubSeq(s, 1, Len(s) - 1)) ELSE s

TrimPrefixSlash(s) == IF s # <<>> /\ Head(s) = "/" THEN Tail(s) ELSE s

\* ------------------------------------------------------------- normalizer
normalizeNamespace(s) ==
    LET t == TrimLeftSlash(s)
    IN  IF t = <<>> THEN <<>>
        ELSE IF t[Len(t)] # "/" THEN Append(t, "/") ELSE t

normalizePath(s) == TrimRightSlash(TrimLeftSlash(s))

\* ---------------------------------------------------------------- resource
\* Resource: [name, namespace, path, data, revision, dependencies,
\*            ignore_failures, method].
\* data is the one body field of the resource: [tpl |-> FALSE, v |-> literal]
\* or the template string <ref:k>: [tpl |-> TRUE, ref |-> name].
Lit(v) == [tpl |-> FALSE, v |-> v, ref |-> <<>>]
Tpl(n) == [tpl |-> TRUE, v |-> "", ref |-> n]

NamespaceOrDefault(r) == IF r.namespace # <<>> THEN r.namespace ELSE <<>>

EffectiveNameConcat(r) ==
    LET ns == normalizeNamespace(NamespaceOrDefault(r))
        pathN == normalizePath(r.path)
    IN  IF ns = <<>> THEN pathN ELSE ns \o pathN

EffectiveName(r) == IF r.name # <<>> THEN r.name ELSE EffectiveNameConcat(r)

Key(r) == EffectiveName(r)

\* ------------------------------------------------------------------ state
\* State.Resources: a function from the keys present to StateResource.
EmptyState == [k \in {} |-> 0]

StateResource(dg, deps, ign, rd, ns, p) ==
    [data_digest |-> dg, dependencies |-> deps, ignore_failures |-> ign,
     response_data |-> rd, namespace |-> ns, path |-> p]

\* A writer that reports success and stores nothing.
SaveStateDropped(st) == EmptyState

\* A writer that stores every entry without its response data.
SaveStateWithoutResponses(st) ==
    [k \in DOMAIN st |-> [st[k] EXCEPT !.response_data = <<>>]]

\* What storage holds after SaveState(state) returned nil.
SaveState(st) == st

Put(st, k, v) == [x \in DOMAIN st \cup {k} |-> IF x = k THEN v ELSE st[x]]

Del(st, k) == [x \in DOMAIN st \ {k} |-> st[x]]

\* The keys FindByNsPath may return: the range over the map visits the entries
\* in an unspecified order and returns the first whose namespace and path match.
FindByNsPath(st, namespace, path) ==
    {k \in DOMAIN st :
        /\ normalizeNamespace(st[k].namespace) = normalizeNamespace(namespace)
        /\ normalizePath(st[k].path) = normalizePath(path)}

\* -------------------------------------------------------------- templates
\* response_data is <<>> (nil, or an object without the key k) or <<v>> (an
\* object whose key k holds v); getResponseDataPath finds k iff it is <<v>>.
getResponseDataPath(rd) == [ok |-> rd # <<>>, val |-> IF rd # <<>> THEN rd[1] ELSE ""]

\* fmt.Sprint of a response value: a string is itself; the JSON number 1
\* (written "n1") prints as its decimal "1".
Sprint(v) == IF v = "n1" THEN "1" ELSE v

resolveTemplateString(d, st) ==
    IF d.ref \notin DOMAIN st THEN [ok |-> FALSE, val |-> ""]
    ELSE LET got == getResponseDataPath(st[d.ref].response_data)
         IN  IF ~got.ok THEN [ok |-> FALSE, val |-> ""]
             ELSE [ok |-> TRUE, val |-> Sprint(got.val)]

ResolveTemplates(d, st) ==
    IF d.tpl THEN resolveTemplateString(d, st) ELSE [ok |-> TRUE, val |-> d.v]

\* ----------------------------------------------------------------- digest
revisionForDigest(revision) == IF revision < 0 THEN 0 ELSE revision

\* json.Marshal fails on a value such as NaN.
Encodable(v) == v # "NaN"

\* A digest that leaves the revision out of the envelope.
DigestWithoutRevision(v, revision) == IF Encodable(v) THEN <<v, 0>> ELSE <<>>

\* sha256 over the JSON envelope, taken as injective; "" (<<>>) when json.Marshal fails.
dataDigestWithRevision(v, revision) ==
    IF Encodable(v) THEN <<v, revision>> ELSE <<>>

normalizeMethod(m) == IF m = "GET" THEN "GET" ELSE "POST"

\* http.NewRequestWithContext fails when the URL, vaultAddr + "/v1/" + path,
\* does not parse (a bad % escape).
UrlOk(addr, path) == "%" \notin Range(addr) /\ "%" \notin Range(path)

TrimSuffixSlash(s) ==
    IF s # <<>> /\ s[Len(s)] = "/" THEN SubSeq(s, 1, Len(s) - 1) ELSE s

\* ------------------------------------------------------------------- lint
\* byEffectiveName as the first loop of Lint leaves it: the index of the
\* resource holding each effective name.
LintNames(resources) == {EffectiveName(resources[i]) : i \in 1..Len(resources)}

\* A Lint that does not compare the effective names.
LintUniqueSkipped(resources) == TRUE

LintUnique(resources) ==
    \A i, j \in 1..Len(resources) :
        i # j => EffectiveName(resources[i]) # EffectiveName(resources[j])

\* A Lint that does not look at the dependencies.
LintDependenciesSkipped(resources) == TRUE

LintDependencies(resources) ==
    \A i \in 1..Len(resources) :
        \A j \in 1..Len(resources[i].dependencies) :
            /\ resources[i].dependencies[j] # <<>>
            /\ resources[i].dependencies[j] \in LintNames(resources)

\* Lint(resources) = nil
Lint(resources) ==
    /\ \A i \in 1..Len(resources) :
          /\ resources[i].path # <<>>
          /\ resources[i].revision >= 0
          /\ resources[i].method \in {"", "GET", "POST"}
    /\ LintUnique(resources)
    /\ LintDependencies(resources)

\* ------------------------------------------------------ topological order
\* byName[name] = the last index holding that effective name; 0 when absent.
ByName(resources, name) ==
    LET hits == {i \in 1..Len(resources) : EffectiveName(resources[i]) = name}
    IN  IF hits = {} THEN 0 ELSE CHOOSE i \in hits : \A j \in hits : j <= i

\* The edges <<depIdx, i>> in the order the two nested loops add them.
RECURSIVE DepEdges(_, _, _)
DepEdges(resources, i, j) ==
    IF i > Len(resources) THEN <<>>
    ELSE IF j > Len(resources[i].dependencies) THEN DepEdges(resources, i + 1, 1)
    ELSE LET depIdx == ByName(resources, resources[i].dependencies[j])
         IN  (IF depIdx = 0 THEN <<>> ELSE <<<<depIdx, i>>>>)
                \o DepEdges(resources, i, j + 1)

\* adj[u]: the targets of u's edges, in insertion order.
RECURSIVE AdjOf(_, _)
AdjOf(edges, u) ==
    IF edges = <<>> THEN <<>>
    ELSE (IF Head(edges)[1] = u THEN <<Head(edges)[2]>> ELSE <<>>)
            \o AdjOf(Tail(edges), u)

InDegreeOf(edges, v) == Cardinality({n \in 1..Len(edges) : edges[n][2] = v})

\* for _, v := range adj[u] { inDegree[v]--; if inDegree[v] == 0 { queue = append(queue, v) } }
RECURSIVE Relax(_, _, _)
Relax(vs, inDeg, queue) ==
    IF vs = <<>> THEN [inDeg |-> inDeg, queue |-> queue]
    ELSE LET v == Head(vs)
             d == [inDeg EXCEPT ![v] = @ - 1]
         IN  Relax(Tail(vs), d, IF d[v] = 0 THEN Append(queue, v) ELSE queue)

\* for len(queue) > 0 { u := queue[0]; queue = queue[1:]; order = append(order, u); ... }
RECURSIVE Kahn(_, _, _, _)
Kahn(queue, inDeg, edges, order) ==
    IF queue = <<>> THEN order
    ELSE LET u == Head(queue)
             r == Relax(AdjOf(edges, u), inDeg, Tail(queue))
         IN  Kahn(r.queue, r.inDeg, edges, Append(order, u))

\* The nodes of in-degree 0, last one first.
RECURSIVE ZeroSeqReversed(_, _)
ZeroSeqReversed(nodes, inDeg) ==
    IF nodes = <<>> THEN <<>>
    ELSE ZeroSeqReversed(Tail(nodes), inDeg)
            \o (IF inDeg[Head(nodes)] = 0 THEN <<Head(nodes)>> ELSE <<>>)

RECURSIVE ZeroSeq(_, _)
ZeroSeq(nodes, inDeg) ==
    IF nodes = <<>> THEN <<>>
    ELSE (IF inDeg[Head(nodes)] = 0 THEN <<Head(nodes)>> ELSE <<>>)
            \o ZeroSeq(Tail(nodes), inDeg)

Indices(n) == [i \in 1..n |-> i]

KahnOrder(resources) ==
    LET edges == DepEdges(resources, 1, 1)
        inDeg == [i \in 1..Len(resources) |-> InDegreeOf(edges, i)]
    IN  Kahn(ZeroSeq(Indices(Len(resources)), inDeg), inDeg, edges, <<>>)

\* The resources in the order the batch lists them.
InputOrder(resources) == [ok |-> TRUE, order |-> Indices(Len(resources))]

\* Kahn's order without the final length comparison.
OrderWithoutCycleCheck(resources) == [ok |-> TRUE, order |-> KahnOrder(resources)]

\* topologicalOrder: [ok |-> FALSE] is the error "cycle in dependencies".
topologicalOrder(resources) ==
    LET order == KahnOrder(resources)
    IN  IF Len(order) # Len(resources) THEN [ok |-> FALSE, order |-> <<>>]
        ELSE [ok |-> TRUE, order |-> order]

\* ------------------------------------------------------------ delete order
\* keys is toDelete in the order the range over state.Resources appended it;
\* seed is the order in which the range over inDegree visits the keys.  Both
\* orders are unspecified (Go map iteration).
RECURSIVE KeyEdges(_, _, _, _)
KeyEdges(st, keys, i, j) ==
    IF i > Len(keys) THEN <<>>
    ELSE IF j > Len(st[keys[i]].dependencies) THEN KeyEdges(st, keys, i + 1, 1)
    ELSE LET depName == st[keys[i]].dependencies[j]
         IN  (IF depName \in Range(keys) THEN <<<<depName, keys[i]>>>> ELSE <<>>)
                \o KeyEdges(st, keys, i, j + 1)

\* The keys in the order the map hands them out, dependencies ignored.
deleteOrderUnsorted(st, keys, seed) == seed

\* Kahn's order, followed by the keys a cycle kept out of it.
deleteOrderWithCycles(st, keys, seed) ==
    LET edges == KeyEdges(st, keys, 1, 1)
        inDeg == [k \in Range(keys) |-> InDegreeOf(edges, k)]
        sorted == Kahn(ZeroSeq(seed, inDeg), inDeg, edges, <<>>)
    IN  sorted \o SelectSeq(seed, LAMBDA k : k \notin Range(sorted))

deleteOrderFromState(st, keys, seed) ==
    LET edges == KeyEdges(st, keys, 1, 1)
        inDeg == [k \in Range(keys) |-> InDegreeOf(edges, k)]
    IN  Kahn(ZeroSeq(seed, inDeg), inDeg, edges, <<>>)

\* -------------------------------------------------------------- the batches
Mk(name, path, data, deps, ign, method) ==
    [name |-> name, namespace |-> <<>>, path |-> path, data |-> data,
     revision |-> 0, dependencies |-> deps, ignore_failures |-> ign,
     method |-> method]

\* The first document of a commit and the second one, without dependencies.
FirstDocs ==
    {Mk(n, <<"p">>, Lit("D1"), <<>>, f[1], f[2]) :
        n \in {<<>>, <<"a">>},
        f \in {<<FALSE, "">>, <<FALSE, "GET">>, <<TRUE, "">>}}

SecondDocs ==
    {Mk(n, p, d, <<>>, FALSE, "") :
        n \in {<<>>, <<"b">>}, p \in {<<"p">>, <<"q">>},
        d \in {Lit("D1"), Tpl(<<"a">>)}}

\* Every way to give the documents of b dependencies: none, or one name of b.
DepChoices(b) == {<<>>} \cup {<<n>> : n \in LintNames(b)}

WithDependencies(b) ==
    {[i \in 1..Len(b) |-> [b[i] EXCEPT !.dependencies = ds[i]]] :
        ds \in [1..Len(b) -> DepChoices(b)]}

BaseBatches ==
    UNION {WithDependencies(b) :
        b \in {<<r>> : r \in FirstDocs}
                \cup {<<r1, r2>> : r1 \in FirstDocs, r2 \in SecondDocs}}

NewNames == {<<>>, <<"c">>}
\* The data an edit gives document i: a new value, or (the first document)
\* a value json.Marshal refuses.
NewData(i) == IF i = 1 THEN {Lit("D2"), Lit("NaN")} ELSE {Lit("D2")}

\* The configured vault address and token.
Addrs == {<<>>, <<"/">>, <<"h">>, <<"h", "/">>, <<"%">>}
Tokens == {"", "t"}

\* --------------------------------------------------------------- variables
VARIABLES
    resources,      \* the batch of the commit being processed
    prevResources,  \* the batch of the previous run
    vaultAddr,      \* the address Apply uses, its trailing "/" trimmed
    state,          \* the in-memory State.Resources of the run
    saved,          \* the state in storage under gitops_state
    startState,     \* state as loaded when the run began
    pc,             \* "idle", "loaded", "apply", "delete", "done"
    order,          \* the indices of the create/update pass still to process
    deleteOrder,    \* the keys of the delete pass still to process
    result,         \* what the run returned: "none", "nil" or an error kind
    prevResult,     \* what the previous run returned
    prevClean,      \* the previous run had no ignored failure
    prevAnswered,   \* <<idx, outcome>> of the previous run's steps answered 2xx
    target,         \* the paths that exist on the target
    cancelled,      \* the run's context has been cancelled
    log,            \* the steps of this run, in order
    runs,           \* runs started so far
    repo,           \* the branch: its commits, HEAD first
    lastFinished,   \* the last-applied commit, <<>> when none
    now,            \* the clock
    selected,       \* what the last walk returned, <<>> for nil
    gpc,            \* "idle", "selected"
    required,       \* RequiredNumberOfVerifiedSignaturesOnCommit
    pushed,         \* every commit created so far; a commit's hash is its index
    cloned,         \* the branch as the last poll cloned it
    failed          \* processing of the commit the last poll selected failed

applyVars == <<resources, prevResources, vaultAddr, state, saved, startState,
               pc, order, deleteOrder, result, prevResult, prevClean, prevAnswered,
               target,
               cancelled, log, runs>>
gateVars == <<repo, lastFinished, now, selected, gpc, required, pushed, cloned,
              failed>>
vars == <<applyVars, gateVars>>

\* ------------------------------------------------------------------- log
\* One entry per step of a run.  sent: an HTTP request was issued (client.Do
\* was called); status: the status of a DELETE's response; persisted: the
\* stored state when the step began; old: the key a migration removed (NoKey
\* otherwise); ignored: the step ended in a failure that ignore_failures
\* swallowed; cancelled: ctx was already cancelled when the step ran.
Entry(phase, key, idx, outcome, sent, method, path, body, status, digest, old, ignored) ==
    [phase |-> phase, key |-> key, idx |-> idx, outcome |-> outcome,
     sent |-> sent, method |-> method, path |-> path, body |-> body,
     status |-> status, digest |-> digest, old |-> old, persisted |-> saved,
     ignored |-> ignored, cancelled |-> cancelled]

Requests(l) == SelectSeq(l, LAMBDA e : e.sent)

Clean(l) == \A n \in 1..Len(l) : ~l[n].ignored

\* The create/update steps of l whose request the target answered 2xx, each
\* with how the step ended, "ok" (saved), "save_err" (the writer failed) or
\* "crashed" (the process died before SaveState), and the digest it computed.
Answered(l) ==
    {<<l[n].idx, l[n].outcome, l[n].digest>> : n \in {m \in 1..Len(l) :
        l[m].phase = "apply" /\ l[m].outcome \in {"ok", "save_err", "crashed"}}}

\* ------------------------------------------------------ the target's answers
Statuses == {200, 404, 405, 500}
Is2xx(status) == status >= 200 /\ status < 300
\* Only 404 counts as "already gone".
IsNotFound(status) == status = 404

IsTombstone(status) == status = 405 \/ status = 404
\* The "data" member of a 2xx body: absent (<<>>) or an object holding k.
ResponseBodies == {<<>>, <<"T1">>, <<"T2">>}

\* ------------------------------------------------- commits (what is loaded)
\* A new commit is loaded: the pipeline leaves Lint and Apply to Begin.  The
\* locals of the run before (its State, its address) are gone.
Load(batch) ==
    /\ pc \in {"idle", "done"}
    /\ runs < MaxRuns
    /\ runs' = runs + 1
    /\ prevResources' = resources
    /\ prevResult' = result
    /\ prevClean' = Clean(log)
    /\ prevAnswered' = Answered(log)
    /\ cancelled' = FALSE
    /\ resources' = batch
    /\ pc' = "loaded"
    /\ result' = "none"
    /\ log' = <<>>
    /\ order' = <<>>
    /\ deleteOrder' = <<>>
    /\ state' = EmptyState
    /\ startState' = EmptyState
    /\ vaultAddr' = <<>>
    /\ UNCHANGED <<saved, target, gateVars>>

CommitNew ==
    /\ runs = 0
    /\ \E b \in BaseBatches : Load(b)

CommitSame ==
    /\ runs > 0
    /\ Load(resources)

CommitBumpRevision ==
    /\ runs > 0
    /\ \E i \in 1..Len(resources) :
          /\ resources[i].revision < MaxRev
          /\ Load([resources EXCEPT ![i].revision = @ + 1])

CommitRename ==
    /\ runs > 0
    /\ \E i \in 1..Len(resources), n \in NewNames :
          /\ n # resources[i].name
          /\ Load([resources EXCEPT ![i].name = n])

CommitChangeData ==
    /\ runs > 0
    /\ \E i \in 1..Len(resources) : \E d \in NewData(i) :
          /\ d # resources[i].data
          /\ Load([resources EXCEPT ![i].data = d])

\* One edit gives document i another name and other data.
CommitRenameChangeData ==
    /\ runs > 0
    /\ \E i \in 1..Len(resources), n \in NewNames : \E d \in NewData(i) :
          /\ n # resources[i].name
          /\ d # resources[i].data
          /\ Load([resources EXCEPT ![i].name = n, ![i].data = d])

\* One edit, made after a run that ended with nil, redeclares the batch: the
\* documents get other dependencies (none, or one name of the batch), and
\* the first document may get a higher revision.
CommitRedeclare ==
    /\ runs > 0
    /\ result = "nil"
    /\ resources # <<>>
    /\ \E b \in WithDependencies(resources), bump \in 0..1 :
          LET c == [b EXCEPT ![1].revision = @ + bump]
          IN  /\ c[1].revision <= MaxRev
              /\ c # resources
              /\ Load(c)

CommitRemove ==
    /\ runs > 0
    /\ \E i \in 1..Len(resources) :
          Load(SubSeq(resources, 1, i - 1) \o SubSeq(resources, i + 1, Len(resources)))

\* --------------------------------------------- processCommitGitOps / Apply
Finish(res) ==
    /\ pc' = "done"
    /\ result' = res

\* ------------------------------------------------------- the keys to delete
currentKeys == {Key(resources[i]) : i \in 1..Len(resources)}

\* A delete pass that finds nothing to delete.
NothingToDelete(st) == {}

\* Every stored key, the keys of the batch included.
EveryStoredKey(st) == DOMAIN st

toDelete(st) == DOMAIN st \ currentKeys

\* The create/update loop is over: toDelete and deleteOrder are computed from
\* st, and with nothing to delete Apply returns nil.
EnterDelete(st) ==
    \E keys \in Perms(toDelete(st)), seed \in Perms(toDelete(st)) :
        /\ deleteOrder' = deleteOrderFromState(st, keys, seed)
        /\ IF deleteOrder' = <<>>
           THEN Finish("nil")
           ELSE pc' = "delete" /\ result' = result

\* An error before the first step: nothing is requested, nothing is written.
PreflightError(res) ==
    /\ Finish(res)
    /\ UNCHANGED <<resources, prevResources, vaultAddr, state, saved, startState,
                   order, deleteOrder, prevResult, prevClean, prevAnswered,
                   target,
                   cancelled, log, runs, gateVars>>

BeginLintError ==
    /\ pc = "loaded"
    /\ ~Lint(resources)
    /\ PreflightError("lint_err")

\* The state is read from storage and Apply is called: it trims the address
\* and refuses an empty address or token.
BeginConfigError ==
    /\ pc = "loaded"
    /\ Lint(resources)
    /\ \E addr \in Addrs, token \in Tokens :
          /\ TrimSuffixSlash(addr) = <<>> \/ token = ""
          /\ Finish("config_err")
          /\ state' = saved
          /\ startState' = saved
    /\ UNCHANGED <<resources, prevResources, vaultAddr, saved, order, deleteOrder,
                   prevResult, prevClean, prevAnswered,
                   target, cancelled, log, runs,
                   gateVars>>

BeginCycleError ==
    /\ pc = "loaded"
    /\ Lint(resources)
    /\ \E addr \in Addrs, token \in Tokens :
          /\ TrimSuffixSlash(addr) # <<>> /\ token # ""
          /\ vaultAddr' = TrimSuffixSlash(addr)
    /\ ~topologicalOrder(resources).ok
    /\ Finish("cycle_err")
    /\ state' = saved
    /\ startState' = saved
    /\ UNCHANGED <<resources, prevResources, saved, order, deleteOrder,
                   prevResult, prevClean, prevAnswered,
                   target, cancelled, log, runs,
                   gateVars>>

Begin ==
    /\ pc = "loaded"
    /\ Lint(resources)
    /\ \E addr \in Addrs, token \in Tokens :
          /\ TrimSuffixSlash(addr) # <<>> /\ token # ""
          /\ vaultAddr' = TrimSuffixSlash(addr)
    /\ topologicalOrder(resources).ok
    /\ order' = topologicalOrder(resources).order
    /\ state' = saved
    /\ startState' = saved
    /\ IF order' = <<>>
       THEN EnterDelete(state')
       ELSE pc' = "apply" /\ UNCHANGED <<deleteOrder, result>>
    /\ UNCHANGED <<resources, prevResources, saved, prevResult, prevClean,
                   prevAnswered, target, cancelled, log,
                   runs, gateVars>>

\* ------------------------------------------------------ create/update pass
Cur == resources[Head(order)]
CurKey == Key(Cur)
\* Templates resolved against the state as the run loaded it.
CurResolvedAtStart == ResolveTemplates(Cur.data, startState)

CurResolved == ResolveTemplates(Cur.data, state)
CurDigest == dataDigestWithRevision(CurResolved.val, revisionForDigest(Cur.revision))
CurMethod == normalizeMethod(Cur.method)
CurPath == TrimPrefixSlash(Cur.path)
CurBody == IF CurMethod = "POST" THEN CurResolved.val ELSE ""

InStep == pc = "apply" /\ order # <<>>

\* A loop that never skips.
NeverNoop == FALSE

IsNoop ==
    /\ CurKey \in DOMAIN state
    /\ state[CurKey].data_digest = CurDigest

\* What FindByNsPath may return when the key is not in state.
MigrationFound ==
    IF CurKey \in DOMAIN state THEN {}
    ELSE FindByNsPath(state, NamespaceOrDefault(Cur), Cur.path)

\* The step goes on to the request: no migration took place.
ToRequest ==
    /\ InStep
    /\ CurResolved.ok
    /\ ~IsNoop
    /\ \/ MigrationFound = {}
       \/ \E k \in MigrationFound : state[k].data_digest # CurDigest

StepEntry(outcome, sent, old, ignored) ==
    Entry("apply", CurKey, Head(order), outcome, sent, CurMethod, CurPath,
          CurBody, 0, CurDigest, old, ignored)

\* continue: the next resource, or the delete pass after the last one; st is
\* the state the step leaves.
Continue(e, st) ==
    /\ order' = Tail(order)
    /\ log' = Append(log, e)
    /\ IF order' = <<>>
       THEN EnterDelete(st)
       ELSE UNCHANGED <<pc, result, deleteOrder>>

\* return fmt.Errorf(...)
Abort(e) ==
    /\ Finish("resource_err")
    /\ log' = Append(log, e)
    /\ UNCHANGED <<order, deleteOrder>>

\* A loop that returns on every failure, whatever ignore_failures says.
FailStepAlwaysAborts(ign, outcome, sent, old, st) ==
    Abort(StepEntry(outcome, sent, old, FALSE))

\* if !r.IgnoreFailures { return err }; continue
FailStep(ign, outcome, sent, old, st) ==
    IF ign THEN Continue(StepEntry(outcome, sent, old, TRUE), st)
    ELSE Abort(StepEntry(outcome, sent, old, FALSE))

stepFrame == <<resources, prevResources, vaultAddr, startState, prevResult,
               prevClean, prevAnswered, cancelled, runs, gateVars>>

StepTemplateError ==
    /\ InStep
    /\ ~CurResolved.ok
    /\ FailStep(Cur.ignore_failures, "template_err", FALSE, NoKey, state)
    /\ UNCHANGED <<state, saved, target, stepFrame>>

\* A loop that sends the request although the digest matches.
StepNoopRequesting ==
    /\ InStep
    /\ CurResolved.ok
    /\ IsNoop
    /\ Continue(StepEntry("ok", TRUE, NoKey, FALSE), state)
    /\ UNCHANGED <<state, saved, target, stepFrame>>

StepNoop ==
    /\ InStep
    /\ CurResolved.ok
    /\ IsNoop
    /\ Continue(StepEntry("noop", FALSE, NoKey, FALSE), state)
    /\ UNCHANGED <<state, saved, target, stepFrame>>

\* A migration that moves the entry and forgets its digest.
MigratedWithoutDigest(st, key, oldKey, r) ==
    Del(Put(st, key,
            StateResource(<<>>, st[oldKey].dependencies,
                          st[oldKey].ignore_failures, st[oldKey].response_data,
                          NamespaceOrDefault(r), r.path)),
        oldKey)

\* A migration that leaves the migrated entry alone in the state.
MigratedAlone(st, key, oldKey, r) ==
    Put(EmptyState, key,
        StateResource(st[oldKey].data_digest, st[oldKey].dependencies,
                      st[oldKey].ignore_failures, st[oldKey].response_data,
                      NamespaceOrDefault(r), r.path))

Migrated(st, key, oldKey, r) ==
    Del(Put(st, key,
            StateResource(st[oldKey].data_digest, st[oldKey].dependencies,
                          st[oldKey].ignore_failures, st[oldKey].response_data,
                          NamespaceOrDefault(r), r.path)),
        oldKey)

StepMigrate ==
    /\ InStep
    /\ CurResolved.ok
    /\ ~IsNoop
    /\ \E oldKey \in MigrationFound, saveOk \in BOOLEAN :
          /\ state[oldKey].data_digest = CurDigest
          /\ state' = Migrated(state, CurKey, oldKey, Cur)
          /\ IF saveOk
             THEN /\ saved' = SaveState(state')
                  /\ Continue(StepEntry("migrated", FALSE, oldKey, FALSE), state')
             ELSE /\ saved' = saved
                  /\ FailStep(Cur.ignore_failures, "migrate_save_err", FALSE,
                              oldKey, state')
    /\ UNCHANGED <<target, stepFrame>>

StepEncodeError ==
    /\ ToRequest
    /\ CurMethod = "POST"
    /\ ~Encodable(CurResolved.val)
    /\ FailStep(Cur.ignore_failures, "encode_err", FALSE, NoKey, state)
    /\ UNCHANGED <<state, saved, target, stepFrame>>

Encoded == CurMethod = "POST" => Encodable(CurResolved.val)

StepNewRequestError ==
    /\ ToRequest
    /\ Encoded
    /\ ~UrlOk(vaultAddr, CurPath)
    /\ FailStep(Cur.ignore_failures, "new_request_err", FALSE, NoKey, state)
    /\ UNCHANGED <<state, saved, target, stepFrame>>

\* client.Do returns an error: the request was issued, no response came.  With
\* the context cancelled this is the only way client.Do returns.
StepTransportError ==
    /\ ToRequest
    /\ Encoded
    /\ UrlOk(vaultAddr, CurPath)
    /\ FailStep(Cur.ignore_failures, "transport_err", TRUE, NoKey, state)
    /\ UNCHANGED <<state, saved, target, stepFrame>>

\* A successful step that records nothing.
AppliedNowhere(st, key, r, digest, responseData) == st

\* An apply that stores the entry with an empty dependency list.
AppliedWithoutDependencies(st, key, r, digest, responseData) ==
    Put(st, key,
        StateResource(digest, <<>>, r.ignore_failures, responseData,
                      NamespaceOrDefault(r), r.path))

\* What exists on the target once it has answered a request 2xx: a POST
\* writes the path, a DELETE removes it, a GET changes nothing.
Accepted(paths, method, path) ==
    IF method = "POST" THEN paths \cup {path}
    ELSE IF method = "DELETE" THEN paths \ {path}
    ELSE paths

Applied(st, key, r, digest, responseData) ==
    Put(st, key,
        StateResource(digest, r.dependencies, r.ignore_failures, responseData,
                      NamespaceOrDefault(r), r.path))

StepSuccess ==
    /\ ToRequest
    /\ ~cancelled
    /\ Encoded
    /\ UrlOk(vaultAddr, CurPath)
    /\ \E status \in Statuses, body \in ResponseBodies, saveOk \in BOOLEAN :
          /\ Is2xx(status)
          /\ state' = Applied(state, CurKey, Cur, CurDigest, body)
          /\ IF saveOk
             THEN /\ saved' = SaveState(state')
                  /\ Continue(StepEntry("ok", TRUE, NoKey, FALSE), state')
             ELSE /\ saved' = saved
                  /\ FailStep(Cur.ignore_failures, "save_err", TRUE, NoKey, state')
    /\ target' = Accepted(target, CurMethod, CurPath)
    /\ UNCHANGED stepFrame

StepHttpError ==
    /\ ToRequest
    /\ ~cancelled
    /\ Encoded
    /\ UrlOk(vaultAddr, CurPath)
    /\ \E status \in Statuses :
          /\ ~Is2xx(status)
          /\ FailStep(Cur.ignore_failures, "http_err", TRUE, NoKey, state)
    /\ UNCHANGED <<state, saved, target, stepFrame>>

\* ------------------------------------------------------------- delete pass
InDelete == pc = "delete" /\ deleteOrder # <<>>
DelKey == Head(deleteOrder)
DelRes == state[DelKey]
DelPath == TrimPrefixSlash(DelRes.path)

DeleteEntry(outcome, sent, status, ignored) ==
    Entry("delete", DelKey, 0, outcome, sent, "DELETE", DelPath, "", status,
          <<>>, NoKey, ignored)

\* continue: the next key, or return nil after the last one.
DelContinue(e) ==
    /\ deleteOrder' = Tail(deleteOrder)
    /\ log' = Append(log, e)
    /\ IF deleteOrder' = <<>> THEN Finish("nil") ELSE UNCHANGED <<pc, result>>

DelAbort(e) ==
    /\ Finish("resource_err")
    /\ log' = Append(log, e)
    /\ UNCHANGED deleteOrder

\* if !ignoreFailures { return err }; continue
FailDelete(ign, outcome, sent, status) ==
    IF ign THEN DelContinue(DeleteEntry(outcome, sent, status, TRUE))
    ELSE DelAbort(DeleteEntry(outcome, sent, status, FALSE))

deleteFrame == <<resources, prevResources, vaultAddr, startState, order,
                 prevResult, prevClean, prevAnswered, cancelled, runs,
                 gateVars>>

DeleteNewRequestError ==
    /\ InDelete
    /\ ~UrlOk(vaultAddr, DelPath)
    /\ FailDelete(DelRes.ignore_failures, "new_request_err", FALSE, 0)
    /\ UNCHANGED <<state, saved, target, deleteFrame>>

DeleteTransportError ==
    /\ InDelete
    /\ UrlOk(vaultAddr, DelPath)
    /\ FailDelete(DelRes.ignore_failures, "transport_err", TRUE, 0)
    /\ UNCHANGED <<state, saved, target, deleteFrame>>

\* delete(state.Resources, key) and SaveState, for a 2xx and for a 404/405.
Removed(outcome, status) ==
    \E saveOk \in BOOLEAN :
        /\ state' = Del(state, DelKey)
        /\ IF saveOk
           THEN /\ saved' = SaveState(state')
                /\ DelContinue(DeleteEntry(outcome, TRUE, status, FALSE))
           ELSE /\ saved' = saved
                /\ FailDelete(DelRes.ignore_failures, "save_err", TRUE, status)

DeleteSuccess ==
    /\ InDelete
    /\ ~cancelled
    /\ UrlOk(vaultAddr, DelPath)
    /\ \E status \in Statuses :
          /\ Is2xx(status)
          /\ Removed("deleted", status)
    /\ target' = Accepted(target, "DELETE", DelPath)
    /\ UNCHANGED deleteFrame

DeleteTombstone ==
    /\ InDelete
    /\ ~cancelled
    /\ UrlOk(vaultAddr, DelPath)
    /\ \E status \in Statuses :
          /\ ~Is2xx(status)
          /\ IsTombstone(status)
          /\ Removed("tombstone", status)
    /\ UNCHANGED <<target, deleteFrame>>

DeleteHttpError ==
    /\ InDelete
    /\ ~cancelled
    /\ UrlOk(vaultAddr, DelPath)
    /\ \E status \in Statuses :
          /\ ~Is2xx(status)
          /\ ~IsTombstone(status)
          /\ FailDelete(DelRes.ignore_failures, "http_err", TRUE, status)
    /\ UNCHANGED <<state, saved, target, deleteFrame>>

\* ------------------------------------------------- crashes and cancellation
\* The process dies between two steps: the locals of Apply are lost, storage
\* keeps what the writer last saved.
Crash ==
    /\ pc \in {"apply", "delete"}
    /\ Finish("crashed")
    /\ UNCHANGED <<resources, prevResources, vaultAddr, state, saved, startState,
                   order, deleteOrder, prevResult, prevClean, prevAnswered,
                   target,
                   cancelled, log, runs, gateVars>>

\* The process dies inside a create/update step, after client.Do returned the
\* 2xx answer and before writer.SaveState stored the entry.
StepCrashAfterResponse ==
    /\ ToRequest
    /\ ~cancelled
    /\ Encoded
    /\ UrlOk(vaultAddr, CurPath)
    /\ \E status \in Statuses : Is2xx(status)
    /\ Finish("crashed")
    /\ log' = Append(log, StepEntry("crashed", TRUE, NoKey, FALSE))
    /\ target' = Accepted(target, CurMethod, CurPath)
    /\ UNCHANGED <<state, saved, order, deleteOrder, stepFrame>>

\* The process dies inside a delete step, after the target answered and before
\* writer.SaveState stored the removal.
DeleteCrashAfterResponse ==
    /\ InDelete
    /\ ~cancelled
    /\ UrlOk(vaultAddr, DelPath)
    /\ \E status \in Statuses :
          /\ Is2xx(status) \/ IsTombstone(status)
          /\ Finish("crashed")
          /\ log' = Append(log, DeleteEntry("crashed", TRUE, status, FALSE))
          /\ target' = IF Is2xx(status) THEN Accepted(target, "DELETE", DelPath)
                        ELSE target
    /\ UNCHANGED <<state, saved, deleteOrder, deleteFrame>>

\* The caller cancels ctx while Apply is between two steps.  Apply never reads
\* ctx itself: it only hands it to http.NewRequestWithContext.
Cancel ==
    /\ pc \in {"apply", "delete"}
    /\ ~cancelled
    /\ cancelled' = TRUE
    /\ UNCHANGED <<resources, prevResources, vaultAddr, state, saved, startState,
                   pc, order, deleteOrder, result, prevResult, prevClean,
                   prevAnswered, target, log, runs, gateVars>>

\* ------------------------------------------------------------ specification
GateIdle ==
    /\ repo = <<>>
    /\ lastFinished = <<>>
    /\ now = 0
    /\ selected = <<>>
    /\ gpc = "idle"
    /\ pushed = <<>>
    /\ cloned = <<>>
    /\ failed = FALSE

ApplyInit ==
    /\ resources = <<>>
    /\ prevResources = <<>>
    /\ vaultAddr = <<>>
    /\ state = EmptyState
    /\ saved = EmptyState
    /\ startState = EmptyState
    /\ pc = "idle"
    /\ order = <<>>
    /\ deleteOrder = <<>>
    /\ result = "none"
    /\ prevResult = "none"
    /\ prevClean = TRUE
    /\ prevAnswered = {}
    /\ target = {}
    /\ cancelled = FALSE
    /\ log = <<>>
    /\ runs = 0

\* The apply engine, with the gate at rest.
Init == ApplyInit /\ GateIdle /\ required = 1

Next ==
    \/ CommitNew
    \/ CommitSame
    \/ CommitBumpRevision
    \/ CommitRename
    \/ CommitChangeData
    \/ CommitRenameChangeData
    \/ CommitRedeclare
    \/ CommitRemove
    \/ BeginLintError
    \/ BeginConfigError
    \/ BeginCycleError
    \/ Begin
    \/ StepTemplateError
    \/ StepNoop
    \/ StepMigrate
    \/ StepEncodeError
    \/ StepNewRequestError
    \/ StepTransportError
    \/ StepSuccess
    \/ StepHttpError
    \/ DeleteNewRequestError
    \/ DeleteTransportError
    \/ DeleteSuccess
    \/ DeleteTombstone
    \/ DeleteHttpError

Spec == Init /\ [][Next]_vars

\* The apply engine with crashes of the process and cancellation of ctx.
FaultNext ==
    \/ Next
    \/ Crash
    \/ StepCrashAfterResponse
    \/ DeleteCrashAfterResponse
    \/ Cancel

FaultSpec == Init /\ [][FaultNext]_vars

\* --------------------------------------------- Lint and topologicalOrder
\* The dependency lists a document may carry: none, a name, a path used as
\* a name, an empty name, a name no document has, two names.
LintDeps ==
    {<<>>, <<<<"a">>>>, <<<<"b">>>>, <<<<"p">>>>, <<<<>>>>, <<<<"z">>>>,
     <<<<"a">>, <<"b">>>>}

\* The documents the loader may hand to Lint: well-formed ones, one without
\* path, one with a negative revision, one with a method Lint refuses, and
\* four whose effective names meet only after normalisation ("p" as a name,
\* "/p" as a path, "n/p" as a name and as namespace "n" with path "p").
LintDocs ==
    {Mk(n, p, Lit("D1"), ds, FALSE, "") :
        n \in {<<>>, <<"a">>, <<"b">>}, p \in {<<"p">>, <<"q">>}, ds \in LintDeps}
    \cup {Mk(<<"a">>, <<>>, Lit("D1"), <<>>, FALSE, ""),
          [Mk(<<"a">>, <<"p">>, Lit("D1"), <<>>, FALSE, "") EXCEPT !.revision = -1],
          Mk(<<"a">>, <<"p">>, Lit("D1"), <<>>, FALSE, "PUT"),
          Mk(<<"p">>, <<"q">>, Lit("D1"), <<>>, FALSE, ""),
          Mk(<<>>, <<"/", "p">>, Lit("D1"), <<>>, FALSE, ""),
          Mk(<<"n", "/", "p">>, <<"q">>, Lit("D1"), <<>>, FALSE, ""),
          [Mk(<<>>, <<"p">>, Lit("D1"), <<>>, FALSE, "") EXCEPT !.namespace = <<"n">>]}

LintBatches == UNION {[1..n -> LintDocs] : n \in 0..MaxBatch}

\* One commit of any of these batches is loaded and goes through Lint, the
\* configuration check and topologicalOrder.
LintInit ==
    /\ resources \in LintBatches
    /\ prevResources = <<>>
    /\ vaultAddr = <<>>
    /\ state = EmptyState
    /\ saved = EmptyState
    /\ startState = EmptyState
    /\ pc = "loaded"
    /\ order = <<>>
    /\ deleteOrder = <<>>
    /\ result = "none"
    /\ prevResult = "none"
    /\ prevClean = TRUE
    /\ prevAnswered = {}
    /\ target = {}
    /\ cancelled = FALSE
    /\ log = <<>>
    /\ runs = 1
    /\ GateIdle
    /\ required = 1

LintNext ==
    \/ BeginLintError
    \/ BeginConfigError
    \/ BeginCycleError
    \/ Begin

LintSpec == LintInit /\ [][LintNext]_vars

\* ------------------------------------------------------- the delete pass
\* The keys earlier applies may have left in storage, each with the path it
\* was applied to, and the dependency lists stored with them: none, one key,
\* two keys, never the key itself (a batch with a self-dependency is refused
\* as cyclic before anything is stored).  Successive batches, each acyclic,
\* can leave any of these lists side by side, a cycle between two or three
\* keys included: a no-op skip keeps the list an earlier batch stored.
StoredKeys == {<<"a">>, <<"b">>, <<"c">>}

StoredPath(k) == IF k = <<"a">> THEN <<"p">> ELSE IF k = <<"b">> THEN <<"q">> ELSE <<"r">>

StoredDeps ==
    {<<>>, <<<<"a">>>>, <<<<"b">>>>, <<<<"c">>>>, <<<<"b">>, <<"c">>>>}

StoredStates ==
    UNION {{[k \in K |->
                StateResource(<<"D1", 0>>, deps[k], ign[k], <<>>, <<>>, StoredPath(k))] :
            deps \in {f \in [K -> StoredDeps] : \A k \in K : k \notin Range(f[k])},
            ign \in [K -> BOOLEAN]} :
        K \in SUBSET StoredKeys}

\* The commit holds no document, or the one document stored under a.
DeleteBatches == {<<>>, <<Mk(<<"a">>, <<"p">>, Lit("D1"), <<>>, FALSE, "")>>}

\* A commit is loaded over a stored state, every stored path on the target.
DeleteInit ==
    /\ resources \in DeleteBatches
    /\ saved \in StoredStates
    /\ target = {StoredPath(k) : k \in DOMAIN saved}
    /\ prevResources = <<>>
    /\ vaultAddr = <<>>
    /\ state = EmptyState
    /\ startState = EmptyState
    /\ pc = "loaded"
    /\ order = <<>>
    /\ deleteOrder = <<>>
    /\ result = "none"
    /\ prevResult = "none"
    /\ prevClean = TRUE
    /\ prevAnswered = {}
    /\ cancelled = FALSE
    /\ log = <<>>
    /\ runs = 1
    /\ GateIdle
    /\ required = 1

DeleteNext ==
    \/ Begin
    \/ StepNoop
    \/ StepSuccess
    \/ DeleteNewRequestError
    \/ DeleteTransportError
    \/ DeleteSuccess
    \/ DeleteTombstone
    \/ DeleteHttpError

DeleteSpec == DeleteInit /\ [][DeleteNext]_vars

\* ----------------------------------------------------- signed-commit gate
\* A commit: [hash, date (committer timestamp), signers (the keys whose
\* signature on it is valid)].
Keys == {"k1", "k2", "x"}
TrustedKeys == {"k1", "k2"}
SignerSets == {{}, {"k1"}, {"k1", "k2"}, {"k1", "x"}}

\* trdlGit.VerifyCommitSignatures(repo, hash, trustedKeys, n) = nil
VerifyCommitSignatures(c, trusted, n) == Cardinality(c.signers \cap trusted) >= n

CommitInfo(c) == <<[CommitHash |-> c.hash, CommitDate |-> c.date]>>

\* The loop over commitIter: cs is what the iterator still holds, HEAD first;
\* last is lastFinishedCommit (<<>> for nil); the result is <<>> for nil.
RECURSIVE WalkUnverified(_, _, _, _)
WalkUnverified(cs, last, currentTime, n) ==
    IF cs = <<>> THEN <<>>
    ELSE LET c == Head(cs)
         IN  IF last # <<>> /\ c.hash = last[1].CommitHash THEN <<>>
             ELSE IF c.date > currentTime
                  THEN WalkUnverified(Tail(cs), last, currentTime, n)
             ELSE IF last # <<>> /\ c.date < last[1].CommitDate
                  THEN WalkUnverified(Tail(cs), last, currentTime, n)
             ELSE CommitInfo(c)

\* The walk without the stop at the last-applied commit.
RECURSIVE WalkPastBoundary(_, _, _, _)
WalkPastBoundary(cs, last, currentTime, n) ==
    IF cs = <<>> THEN <<>>
    ELSE LET c == Head(cs)
         IN  IF ~VerifyCommitSignatures(c, TrustedKeys, n)
                  THEN WalkPastBoundary(Tail(cs), last, currentTime, n)
             ELSE IF c.date > currentTime
                  THEN WalkPastBoundary(Tail(cs), last, currentTime, n)
             ELSE IF last # <<>> /\ c.date < last[1].CommitDate
                  THEN WalkPastBoundary(Tail(cs), last, currentTime, n)
             ELSE CommitInfo(c)

\* The walk without the skip of commits dated in the future.
RECURSIVE WalkIntoFuture(_, _, _, _)
WalkIntoFuture(cs, last, currentTime, n) ==
    IF cs = <<>> THEN <<>>
    ELSE LET c == Head(cs)
         IN  IF last # <<>> /\ c.hash = last[1].CommitHash THEN <<>>
             ELSE IF ~VerifyCommitSignatures(c, TrustedKeys, n)
                  THEN WalkIntoFuture(Tail(cs), last, currentTime, n)
             ELSE IF last # <<>> /\ c.date < last[1].CommitDate
                  THEN WalkIntoFuture(Tail(cs), last, currentTime, n)
             ELSE CommitInfo(c)

\* The walk without the monotonic-time guard.
RECURSIVE WalkBackInTime(_, _, _, _)
WalkBackInTime(cs, last, currentTime, n) ==
    IF cs = <<>> THEN <<>>
    ELSE LET c == Head(cs)
         IN  IF last # <<>> /\ c.hash = last[1].CommitHash THEN <<>>
             ELSE IF ~VerifyCommitSignatures(c, TrustedKeys, n)
                  THEN WalkBackInTime(Tail(cs), last, currentTime, n)
             ELSE IF c.date > currentTime
                  THEN WalkBackInTime(Tail(cs), last, currentTime, n)
             ELSE CommitInfo(c)

RECURSIVE WalkCommits(_, _, _, _)
WalkCommits(cs, last, currentTime, n) ==
    IF cs = <<>> THEN <<>>
    ELSE LET c == Head(cs)
         IN  IF last # <<>> /\ c.hash = last[1].CommitHash THEN <<>>
             ELSE IF ~VerifyCommitSignatures(c, TrustedKeys, n)
                  THEN WalkCommits(Tail(cs), last, currentTime, n)
             ELSE IF c.date > currentTime
                  THEN WalkCommits(Tail(cs), last, currentTime, n)
             ELSE IF last # <<>> /\ c.date < last[1].CommitDate
                  THEN WalkCommits(Tail(cs), last, currentTime, n)
             ELSE CommitInfo(c)

\* A walk that keeps going and returns the qualifying commit farthest from
\* HEAD.
RECURSIVE FindOldestSignedCommit(_, _, _, _)
FindOldestSignedCommit(cs, last, currentTime, n) ==
    IF cs = <<>> THEN <<>>
    ELSE LET c == Head(cs)
         IN  IF last # <<>> /\ c.hash = last[1].CommitHash THEN <<>>
             ELSE LET older == FindOldestSignedCommit(Tail(cs), last, currentTime, n)
                  IN  IF older # <<>> THEN older
                      ELSE IF /\ VerifyCommitSignatures(c, TrustedKeys, n)
                              /\ c.date <= currentTime
                              /\ (last # <<>> => c.date >= last[1].CommitDate)
                           THEN CommitInfo(c)
                      ELSE <<>>

FindFirstSignedCommitFromRepo(gitRepo, last, currentTime, n) ==
    IF last # <<>> /\ last[1].CommitHash = Head(gitRepo).hash THEN <<>>
    ELSE WalkCommits(gitRepo, last, currentTime, n)

gateFrame == applyVars

\* A commit is pushed to the branch.
GPush ==
    /\ Len(pushed) < MaxCommits
    /\ \E d \in 0..MaxTime, sg \in SignerSets :
          LET c == [hash |-> Len(pushed) + 1, date |-> d, signers |-> sg]
          IN  /\ pushed' = Append(pushed, c)
              /\ repo' = <<c>> \o repo
    /\ UNCHANGED <<lastFinished, now, selected, gpc, required, cloned, failed,
                   gateFrame>>

\* The branch is force-pushed back to the parent of HEAD.
GForcePush ==
    /\ Len(repo) > 1
    /\ repo' = Tail(repo)
    /\ UNCHANGED <<pushed, lastFinished, now, selected, gpc, required, cloned,
                   failed, gateFrame>>

GTick ==
    /\ now < MaxTime
    /\ now' = now + 1
    /\ UNCHANGED <<pushed, repo, lastFinished, selected, gpc, required, cloned,
                   failed, gateFrame>>

\* One poll: the branch is cloned and walked.
GPoll ==
    /\ gpc = "idle"
    /\ repo # <<>>
    /\ selected' = FindFirstSignedCommitFromRepo(repo, lastFinished, now, required)
    /\ gpc' = IF selected' = <<>> THEN "idle" ELSE "selected"
    /\ cloned' = repo
    /\ failed' = FALSE
    /\ UNCHANGED <<pushed, repo, lastFinished, now, required, gateFrame>>

\* The selected commit was processed without error: it becomes the
\* last-applied commit.
GProcessOk ==
    /\ gpc = "selected"
    /\ lastFinished' = selected
    /\ gpc' = "idle"
    /\ UNCHANGED <<pushed, repo, now, selected, required, cloned, failed,
                   gateFrame>>

\* A poller that records the selected commit whether processing succeeded
\* or not.
GProcessFailAdvances ==
    /\ gpc = "selected"
    /\ lastFinished' = selected
    /\ gpc' = "idle"
    /\ failed' = TRUE
    /\ UNCHANGED <<pushed, repo, now, selected, required, cloned, gateFrame>>

\* Processing failed: the pointer stays.
GProcessFail ==
    /\ gpc = "selected"
    /\ gpc' = "idle"
    /\ failed' = TRUE
    /\ UNCHANGED <<pushed, repo, lastFinished, now, selected, required, cloned,
                   gateFrame>>

GateNext ==
    \/ GPush
    \/ GForcePush
    \/ GTick
    \/ GPoll
    \/ GProcessOk
    \/ GProcessFail

\* The gate, with the engine at rest.
GateInit == ApplyInit /\ GateIdle /\ required \in 1..MaxRequired

GateSpec == GateInit /\ [][GateNext]_vars

\* =================================================================== claims

\* The pushed commit a CommitInfo names.
CommitOf(info) == pushed[info[1].CommitHash]

\* Claim C1 (signed-commit gate): every commit FindFirstSignedCommitFromRepo
\* returns carries at least `required` valid signatures of trusted keys, so a
\* commit that fails verification is neither selected nor recorded as applied.
C1_SignedCommitGate ==
    /\ selected # <<>> =>
          Cardinality(CommitOf(selected).signers \cap TrustedKeys) >= required
    /\ lastFinished # <<>> =>
          Cardinality(CommitOf(lastFinished).signers \cap TrustedKeys) >= required

\* The walk has skipped a newer commit only because its signatures fall short
\* and has selected an older, sufficiently signed one.
C1_Witness ==
    /\ gpc = "selected"
    /\ Len(repo) >= 2
    /\ Head(repo).hash # selected[1].CommitHash
    /\ Head(repo).date <= now
    /\ Head(repo).date >= selected[1].CommitDate
    /\ Cardinality(Head(repo).signers \cap TrustedKeys) < required
    /\ \E i \in 2..Len(repo) : repo[i].hash = selected[1].CommitHash

\* ------------------------------------------------------------- reruns
\* Apply has been entered for the loaded batch (the batch passed Lint and the
\* address and token are set).
Entered == pc \in {"apply", "delete", "done"} /\ result \notin {"lint_err", "config_err"}

\* The run before this one returned nil without swallowing any failure.
PrevNil == runs >= 2 /\ prevResult = "nil"
PrevSucceeded == PrevNil /\ prevClean

\* Every template of the batch reads a resource the templating resource lists
\* in its dependencies.
TemplatesNameDependencies(rs) ==
    \A i \in 1..Len(rs) : rs[i].data.tpl => rs[i].data.ref \in Range(rs[i].dependencies)

\* The stored state holds an entry for every resource of the batch.
EveryResourceStored(st) == currentKeys \subseteq DOMAIN st

\* Claim C2 (idempotence), read for a first run that returned nil and swallowed
\* no failure: a run of the identical batch against the state it left issues
\* no HTTP request and leaves the state unchanged.
C2_Idempotence ==
    (PrevSucceeded /\ Entered /\ resources = prevResources) =>
        (Requests(log) = <<>> /\ state = startState)

\* ------------------------------------------------------- revision lever
\* The batch is the one of the run before with the revision of resource i,
\* and nothing else, increased.
RevisionBumped(i) ==
    /\ Len(resources) = Len(prevResources)
    /\ resources[i].revision > prevResources[i].revision
    /\ resources = [prevResources EXCEPT ![i].revision = resources[i].revision]

\* The run after a successful one, finished, with only resource i's revision
\* increased, the address usable and i's data encodable.
AfterRevisionBump(i) ==
    /\ PrevSucceeded /\ Entered /\ pc = "done"
    /\ RevisionBumped(i)
    /\ EveryResourceStored(startState)
    /\ TemplatesNameDependencies(resources)
    /\ resources[i].data.tpl \/ Encodable(resources[i].data.v)
    /\ UrlOk(vaultAddr, resources[i].path)

IsRequestTo(e, i) ==
    /\ e.phase = "apply" /\ e.idx = i
    /\ e.path = TrimPrefixSlash(resources[i].path)

\* The entry of key k carries another response than at the start of the run.
ResponseChanged(k) ==
    /\ k \in DOMAIN state /\ k \in DOMAIN startState
    /\ state[k].response_data # startState[k].response_data

\* Claim C3 as stated (revision lever): the run issues exactly one HTTP
\* request, to the path of the resource whose revision was increased, and none
\* for any other resource, template users included.
C3_Original ==
    \A i \in 1..Len(resources) :
        AfterRevisionBump(i) =>
            /\ Len(Requests(log)) = 1
            /\ IsRequestTo(Requests(log)[1], i)

\* Claim C3, amended: the first request of the run goes to the path of the
\* resource whose revision was increased, and every further request is the
\* re-apply of a resource whose template reads a response this run changed; so
\* the run issues exactly one request when no template reads a changed response.
C3_RevisionLever ==
    \A i \in 1..Len(resources) :
        AfterRevisionBump(i) =>
            LET reqs == Requests(log)
            IN  /\ Len(reqs) >= 1
                /\ IsRequestTo(reqs[1], i)
                /\ \A n \in 2..Len(reqs) :
                      /\ reqs[n].phase = "apply"
                      /\ resources[reqs[n].idx].data.tpl
                      /\ ResponseChanged(resources[reqs[n].idx].data.ref)

\* Resource 1's revision was increased; it was re-applied with the response it
\* had before, and resource 2, whose template reads that response, was skipped:
\* one request in the run.
C3_Witness ==
    /\ Len(resources) = 2
    /\ AfterRevisionBump(1)
    /\ result = "nil"
    /\ resources[2].data.tpl /\ resources[2].data.ref = Key(resources[1])
    /\ Len(log) = 2
    /\ log[1].outcome = "ok" /\ log[1].idx = 1
    /\ log[2].outcome = "noop"
    /\ Len(Requests(log)) = 1

\* ------------------------------------------------------- dependencies
\* Resource i lists the effective name of resource j as a dependency.
DependsOn(rs, i, j) == EffectiveName(rs[j]) \in Range(rs[i].dependencies)

\* Claim C4 (dependency respect): for every dependency edge d -> r between two
\* resources of the batch, if the run issues a request for both, the request
\* for d has completed before the request for r is issued.
C4_DependencyRespect ==
    \A m, n \in 1..Len(log) :
        (/\ log[m].phase = "apply" /\ log[m].sent
         /\ log[n].phase = "apply" /\ log[n].sent
         /\ DependsOn(resources, log[n].idx, log[m].idx)) => m < n

\* The batch lists r before d; both were requested, d first.
C4_Witness ==
    /\ Len(resources) = 2
    /\ DependsOn(resources, 1, 2)
    /\ Len(log) = 2
    /\ log[1].idx = 2 /\ log[1].sent
    /\ log[2].idx = 1 /\ log[2].sent

\* The entry of resource d's step that precedes position n of the log (0 when
\* there is none).
StepBefore(d, n) ==
    LET hits == {m \in 1..(n - 1) : log[m].phase = "apply" /\ log[m].idx = d}
    IN  IF hits = {} THEN 0 ELSE CHOOSE m \in hits : TRUE

\* The state persisted when entry e began holds d's key with the digest d's
\* step computed.
PersistedFor(e, d, digest) ==
    /\ Key(resources[d]) \in DOMAIN e.persisted
    /\ e.persisted[Key(resources[d])].data_digest = digest

\* Claim C5 as stated (persist before dependent): when r issues its request,
\* the step of each dependency d has completed and the persisted state holds
\* d's key with the digest of this run, whatever the ignore_failures flags, the
\* responses and the writer's outcomes.
C5_Original ==
    \A n \in 1..Len(log) : \A d \in 1..Len(resources) :
        (/\ log[n].phase = "apply" /\ log[n].sent
         /\ DependsOn(resources, log[n].idx, d)) =>
            /\ StepBefore(d, n) # 0
            /\ PersistedFor(log[n], d, log[StepBefore(d, n)].digest)

\* d's step ended without a failure and no later step migrated d's key away.
StepHeld(d, m, n) ==
    /\ log[m].outcome \in {"ok", "noop", "migrated"}
    /\ \A x \in (m + 1)..(n - 1) : log[x].old # Key(resources[d])

\* Claim C5, amended: when r issues its request, the step of each dependency d
\* has completed; and if that step ended without a failure (a 2xx response, a
\* no-op skip or a key migration, each with its save succeeding) and no later
\* step migrated d's key away, the persisted state holds d's key with the
\* digest of this run.
C5_PersistBeforeDependent ==
    \A n \in 1..Len(log) : \A d \in 1..Len(resources) :
        (/\ log[n].phase = "apply" /\ log[n].sent
         /\ DependsOn(resources, log[n].idx, d)) =>
            /\ StepBefore(d, n) # 0
            /\ StepHeld(d, StepBefore(d, n), n) =>
                  PersistedFor(log[n], d, log[StepBefore(d, n)].digest)

\* d was applied with a 2xx response and saved, then r, which depends on d,
\* issued its request.
C5_Witness ==
    /\ Len(resources) = 2
    /\ DependsOn(resources, 2, 1)
    /\ Len(log) = 2
    /\ log[1].idx = 1 /\ log[1].outcome = "ok"
    /\ log[2].idx = 2 /\ log[2].sent
    /\ PersistedFor(log[2], 1, log[1].digest)

\* -------------------------------------------------------------- deletes
\* Claim C6 (delete completeness, first half), read for a run that swallowed
\* no failure: whenever Apply returns nil, the keys of state.resources include
\* the effective name of every resource of the batch.
C6_BatchKeysStored ==
    (pc = "done" /\ result = "nil" /\ Clean(log)) => EveryResourceStored(state)

\* The keys that were stored before the run and name no resource of the batch.
Orphans == DOMAIN startState \ currentKeys

\* The run issued an HTTP DELETE for the path stored under k.
DeleteIssued(k) ==
    \E n \in 1..Len(log) :
        /\ log[n].phase = "delete" /\ log[n].sent /\ log[n].key = k
        /\ log[n].method = "DELETE"
        /\ log[n].path = TrimPrefixSlash(startState[k].path)

\* A key-migration step moved k's entry to the key of a batch resource.
MigratedAway(k) ==
    \E n \in 1..Len(log) : log[n].phase = "apply" /\ log[n].old = k

\* k's DELETE request could not be built and ignore_failures, stored true,
\* swallowed the failure.
DeleteNotBuilt(k) ==
    \E n \in 1..Len(log) :
        /\ log[n].phase = "delete" /\ log[n].key = k
        /\ log[n].outcome = "new_request_err" /\ log[n].ignored

\* The keys reachable from S along stored dependencies, within K.
RECURSIVE StoredReach(_, _, _)
StoredReach(st, K, S) ==
    LET T == S \cup {d \in K : \E k \in S : d \in Range(st[k].dependencies)}
    IN  IF T = S THEN S ELSE StoredReach(st, K, T)

\* No cycle of stored dependencies among the keys K.
StoredAcyclic(st, K) ==
    \A k \in K : \A d \in K :
        d \in Range(st[k].dependencies) => k \notin StoredReach(st, K, {d})

\* Claim C7 as stated (delete completeness, second half): whenever Apply
\* returns nil, every key stored before the run that names no resource of the
\* batch has had an HTTP DELETE issued for its stored path.
C7_Original ==
    (pc = "done" /\ result = "nil") => \A k \in Orphans : DeleteIssued(k)

\* Claim C7, amended: whenever Apply returns nil and the stored dependencies
\* among those keys hold no cycle, every such key has been moved to a batch
\* resource's key by key migration, or has had an HTTP DELETE issued for its
\* stored path, or (ignore_failures stored true) had a DELETE request that
\* could not be built.
C7_DeleteCompleteness ==
    (pc = "done" /\ result = "nil" /\ StoredAcyclic(startState, Orphans)) =>
        \A k \in Orphans :
            MigratedAway(k) \/ DeleteIssued(k) \/ DeleteNotBuilt(k)

\* A resource was removed from the batch; the run sent the DELETE for its
\* stored path, dropped the key and returned nil.
C7_Witness ==
    /\ pc = "done" /\ result = "nil"
    /\ \E k \in Orphans :
          /\ DeleteIssued(k)
          /\ ~MigratedAway(k)
          /\ k \notin DOMAIN state

\* ---------------------------------------------------------------- cycles
\* The resources reachable from S along dependency edges.
RECURSIVE Reachable(_, _)
Reachable(rs, S) ==
    LET T == S \cup {j \in 1..Len(rs) : \E i \in S : DependsOn(rs, i, j)}
    IN  IF T = S THEN S ELSE Reachable(rs, T)

\* The dependency graph of the batch holds a cycle (a self-dependency is one).
HasCycle(rs) ==
    \E i, j \in 1..Len(rs) : DependsOn(rs, i, j) /\ i \in Reachable(rs, {j})

\* Claim C8 (cycle detection): for a batch whose dependency graph holds a
\* cycle, self-dependency included, Apply returns an error before any step:
\* no HTTP request, no call of the writer, the state as it was.
C8_CycleDetection ==
    (pc \in {"apply", "delete", "done"} /\ result # "lint_err" /\ HasCycle(resources)) =>
        /\ pc = "done"
        /\ result \in {"cycle_err", "config_err"}
        /\ log = <<>>
        /\ state = startState
        /\ saved = startState

\* Apply has refused a batch of two resources, one of which depends on itself.
C8_Witness ==
    /\ pc = "done" /\ result = "cycle_err"
    /\ Len(resources) = 2
    /\ \E i \in 1..2 : DependsOn(resources, i, i)
    /\ \E i \in 1..2 : ~DependsOn(resources, i, i) /\ resources[i].dependencies = <<>>

\* ---------------------------------------------------------- key migration
\* The batch is the one of the run before with resource i given another,
\* non-empty name and nothing else changed.
Renamed(i) ==
    /\ Len(resources) = Len(prevResources)
    /\ resources[i].name # <<>>
    /\ Key(resources[i]) # Key(prevResources[i])
    /\ resources = [prevResources EXCEPT ![i].name = resources[i].name]

\* Claim C9 (key migration), read for a first apply that swallowed no failure
\* and a second apply that returned nil: if a resource's only change between
\* the two is its name, the second apply issues no HTTP request, and afterwards
\* the old key is gone and the new key holds the old entry's response_data and
\* data_digest.
C9_KeyMigration ==
    \A i \in 1..Len(resources) :
        (/\ PrevSucceeded /\ pc = "done" /\ result = "nil"
         /\ Renamed(i)
         /\ Key(prevResources[i]) \in DOMAIN startState) =>
            LET old == Key(prevResources[i])
                new == Key(resources[i])
            IN  /\ Requests(log) = <<>>
                /\ old \notin DOMAIN state
                /\ new \in DOMAIN state
                /\ state[new].response_data = startState[old].response_data
                /\ state[new].data_digest = startState[old].data_digest

\* -------------------------------------------------------------- tombstones
\* Claim C10 (tombstone tolerance): a DELETE answered 404 or 405 removes the
\* key from state.resources and does not by itself make Apply return an
\* error, whatever the stored ignore_failures flag: Apply stops at such a step
\* only when the save that follows fails.
C10_TombstoneTolerance ==
    \A n \in 1..Len(log) :
        (log[n].phase = "delete" /\ log[n].status \in {404, 405}) =>
            /\ log[n].key \notin DOMAIN state
            /\ (n = Len(log) /\ result = "resource_err") => log[n].outcome = "save_err"

\* A key stored with ignore_failures false was answered 405: it is gone from
\* the state and Apply returned nil.
C10_Witness ==
    /\ pc = "done" /\ result = "nil"
    /\ \E n \in 1..Len(log) :
          /\ log[n].phase = "delete" /\ log[n].status = 405
          /\ log[n].key \in DOMAIN startState
          /\ ~startState[log[n].key].ignore_failures
          /\ log[n].key \notin DOMAIN state

\* ---------------------------------------------------------------- claim C11
\* The run is a re-run of the batch of a run that a crash interrupted, from
\* the state the writer last saved.
RerunAfterCrash == prevResult = "crashed" /\ Entered /\ resources = prevResources

\* The run sent a create/update request for resource i.
Requested(i) ==
    \E n \in 1..Len(log) : log[n].phase = "apply" /\ log[n].idx = i /\ log[n].sent

IsFailure(e) ==
    e.outcome \in {"template_err", "encode_err", "new_request_err",
                   "transport_err", "http_err", "save_err", "migrate_save_err"}

\* The ignore_failures that governs the step of e: the resource's own for a
\* create/update, the one stored with the entry for a delete.
IgnoreFailuresOf(e) ==
    IF e.phase = "apply" THEN resources[e.idx].ignore_failures
    ELSE startState[e.key].ignore_failures

\* Claim C12 (ignore_failures contract): a failed step of a resource with
\* ignore_failures = true never ends the run with an error, and the run goes
\* on to the steps after it (a run that returns nil has stepped through every
\* resource of the batch); a failed step of a resource with ignore_failures =
\* false is the last step of the run, which returns an error at once, so no
\* HTTP request follows it.
C12_IgnoreFailuresContract ==
    /\ \A n \in 1..Len(log) : IsFailure(log[n]) =>
          IF IgnoreFailuresOf(log[n])
          THEN /\ log[n].ignored
               /\ n = Len(log) => result # "resource_err"
               /\ (n = Len(log) /\ pc = "done") => result = "nil"
          ELSE /\ ~log[n].ignored
               /\ n = Len(log) /\ pc = "done" /\ result = "resource_err"
    /\ result = "resource_err" =>
          /\ log # <<>>
          /\ IsFailure(log[Len(log)]) /\ ~IgnoreFailuresOf(log[Len(log)])
    /\ (pc = "done" /\ result = "nil") =>
          \A i \in 1..Len(resources) :
              \E n \in 1..Len(log) : log[n].phase = "apply" /\ log[n].idx = i

\* A run swallowed the failure of a resource with ignore_failures = true, sent
\* the request of the next resource, and returned the error of that one, whose
\* ignore_failures is false.
C12_Witness ==
    /\ pc = "done" /\ result = "resource_err"
    /\ \E n \in 1..Len(log) - 1 :
          /\ IsFailure(log[n]) /\ IgnoreFailuresOf(log[n])
          /\ log[Len(log)].sent /\ ~IgnoreFailuresOf(log[Len(log)])
\* ---------------------------------------------------------------- claim C13
\* Apply returned the error of a step.
Aborted == pc = "done" /\ result = "resource_err"

\* The target accepted the request of the step of log entry e: a 2xx for a
\* create/update, a 2xx, 404 or 405 for a delete.
RequestSucceeded(e) ==
    \/ e.phase = "apply" /\ e.outcome \in {"ok", "save_err"}
    \/ e.phase = "delete" /\ e.outcome \in {"deleted", "tombstone", "save_err"}

\* The saved state contains the result of the step at position n of the log:
\* the entry with the step's digest (unless a later step migrated the key
\* away), or no entry after a delete.
ResultSaved(n) ==
    IF log[n].phase = "delete" THEN log[n].key \notin DOMAIN saved
    ELSE (\A x \in (n + 1)..Len(log) : log[x].old # log[n].key) =>
            /\ log[n].key \in DOMAIN saved
            /\ saved[log[n].key].data_digest = log[n].digest

\* Claim C13 as stated (abort leaves progress persisted): whenever Apply
\* returns an error, the saved state equals the in-memory state and contains
\* the result of every step whose request succeeded before the abort.
C13_Original ==
    Aborted =>
        /\ saved = state
        /\ \A n \in 1..Len(log) : RequestSucceeded(log[n]) => ResultSaved(n)

\* The last call of writer.SaveState in this run failed: the in-memory state
\* has a change that no later save has stored.
LastSaveFailed ==
    \E n \in 1..Len(log) :
        /\ log[n].outcome \in {"save_err", "migrate_save_err"}
        /\ \A m \in (n + 1)..Len(log) :
              log[m].outcome \notin {"ok", "migrated", "deleted", "tombstone"}

\* Claim C13, amended: when Apply returns an error and the last call of the
\* writer in the run, if any, succeeded (the error is not the writer's, and
\* no writer failure swallowed under ignore_failures is still unsaved), the
\* saved state equals the in-memory state and contains the result of every
\* step whose request succeeded before the abort.
C13_AbortLeavesProgress ==
    (Aborted /\ ~LastSaveFailed) =>
        /\ saved = state
        /\ \A n \in 1..Len(log) : RequestSucceeded(log[n]) => ResultSaved(n)

\* Apply returned the error of a request that failed after an earlier step's
\* request had succeeded and been saved.
C13_Witness ==
    /\ Aborted /\ ~LastSaveFailed
    /\ \E n \in 1..Len(log) - 1 : log[n].outcome = "ok"
    /\ log[Len(log)].outcome \in {"http_err", "transport_err"}
    /\ saved # startState
\* ---------------------------------------------------------------- claim C14
\* ctx was cancelled after the first step of the run, between two steps.
CancelledBetweenSteps == cancelled /\ log # <<>> /\ ~log[1].cancelled

\* Claim C14 (cancellation), read in the code's favour (any error returned
\* after the cancellation counts as the cancellation error): a run whose ctx
\* was cancelled between two steps, with steps still to go, does not return
\* nil, and no step after the cancellation changes the state.
C14_Cancellation ==
    CancelledBetweenSteps =>
        /\ pc = "done" => result # "nil"
        /\ \A n \in 1..Len(log) : log[n].cancelled => log[n].outcome # "migrated"
\* ---------------------------------------------------------------- claim C15
\* The positions of the branch (1 = HEAD) that lie before the last-applied
\* commit, or all of them when the branch does not hold it.
NewerThanLast ==
    {i \in 1..Len(repo) :
        lastFinished = <<>> \/
            \A j \in 1..i : repo[j].hash # lastFinished[1].CommitHash}

\* The positions newer than the last-applied commit whose commit satisfies
\* the signature quorum and both timestamp guards.
Qualifying ==
    {i \in NewerThanLast :
        /\ Cardinality(repo[i].signers \cap TrustedKeys) >= required
        /\ repo[i].date <= now
        /\ (lastFinished # <<>> => repo[i].date >= lastFinished[1].CommitDate)}

\* A poll that selects a commit.
Selects == gpc = "idle" /\ gpc' = "selected"

NextPoll == FindFirstSignedCommitFromRepo(repo, lastFinished, now, required)

\* Processing of the selected commit has failed and the branch is as the
\* failed poll cloned it.
FailedOnSameBranch == failed /\ repo = cloned

\* Claim C16 as stated (retry without advance), for a branch that has not
\* changed since the failed poll: the last-applied pointer was not moved to
\* the failed commit, and the next poll selects the same commit again.
C16_Original ==
    FailedOnSameBranch =>
        /\ lastFinished # selected
        /\ NextPoll = selected

\* Claim C16, amended: after a failure the last-applied pointer was not moved
\* to the failed commit, and on an unchanged branch the failed commit still
\* qualifies; the next poll selects it again unless a commit nearer to HEAD,
\* dated in the future at the failed poll, qualifies by then, in which case
\* the poll selects that one.
C16_RetryWithoutAdvance ==
    FailedOnSameBranch =>
        /\ lastFinished # selected
        /\ \E i \in Qualifying : repo[i].hash = selected[1].CommitHash
        /\ NextPoll # <<>>
        /\ NextPoll # selected =>
              \E i, j \in Qualifying :
                  /\ repo[i].hash = NextPoll[1].CommitHash
                  /\ repo[j].hash = selected[1].CommitHash
                  /\ i < j

\* Processing failed, an earlier commit being recorded as applied, and a poll
\* of the unchanged branch would select the failed commit again.
C16_Witness ==
    /\ FailedOnSameBranch
    /\ lastFinished # <<>>
    /\ NextPoll = selected
\* ---------------------------------------------------------------- claim C17
\* Claim C17 (monotonic-time guard): a poll that finds a last-applied commit
\* selects only a commit whose committer timestamp is not earlier than the
\* last-applied timestamp, and over polls, force-pushes and successful
\* applies the last-applied timestamp never decreases.
C17_MonotonicTime ==
    [][/\ (Selects /\ lastFinished # <<>>) =>
             selected'[1].CommitDate >= lastFinished[1].CommitDate
       /\ (lastFinished # <<>> /\ lastFinished' # lastFinished) =>
             /\ lastFinished' # <<>>
             /\ lastFinished'[1].CommitDate >= lastFinished[1].CommitDate]_vars

\* A last-applied commit exists and the poll has passed over a sufficiently
\* signed commit nearer to HEAD, not dated in the future, because it is dated
\* before the last-applied one, and has selected an older-placed commit.
C17_Witness ==
    /\ gpc = "selected" /\ lastFinished # <<>> /\ repo = cloned
    /\ \E i, j \in 1..Len(repo) :
          /\ i < j
          /\ repo[j].hash = selected[1].CommitHash
          /\ Cardinality(repo[i].signers \cap TrustedKeys) >= required
          /\ repo[i].date <= now
          /\ repo[i].date < lastFinished[1].CommitDate
\* ---------------------------------------------------------------- claim C18
\* Log entry n is a request of a resource B whose data is the template
\* <A:key>, B lists A in its dependencies, and entry m is the step of A in
\* which the target answered A's request 2xx.
TemplateReadsStep(n, m) ==
    LET B == resources[log[n].idx]
    IN  /\ log[n].phase = "apply" /\ log[n].sent
        /\ B.data.tpl /\ B.data.ref \in Range(B.dependencies)
        /\ log[m].phase = "apply" /\ log[m].outcome \in {"ok", "save_err"}
        /\ log[m].key = B.data.ref

\* The body of request n carries the value that A's step of this run, m, left
\* in the state as A's response.
CarriesResponseOf(n, m) ==
    /\ log[m].key \in DOMAIN state
    /\ state[log[m].key].response_data = <<log[n].body>>

MigrationOutcomes ==
    {IF state[k].data_digest = CurDigest
     THEN [request |-> FALSE, state |-> Migrated(state, CurKey, k, Cur)]
     ELSE [request |-> TRUE, state |-> state] : k \in MigrationFound}

\* The orders in which the delete pass can send its requests when it starts
\* from the state st.
DeleteOrders(st) ==
    {deleteOrderFromState(st, keys, seed) :
        keys \in Perms(toDelete(st)), seed \in Perms(toDelete(st))}

\* Claim C19 (determinism of the engine): with the resources, the starting
\* state and the answers of target and writer fixed, every step of Apply has
\* one outcome: a create/update step that consults FindByNsPath comes to the
\* same decision and the same state whichever entry the map yields first, and
\* the delete pass has one order.
C19_Determinism ==
    /\ (InStep /\ CurResolved.ok /\ ~IsNoop) => Cardinality(MigrationOutcomes) <= 1
    /\ (pc = "delete" /\ \A n \in 1..Len(log) : log[n].phase # "delete") =>
          Cardinality(DeleteOrders(state)) = 1
\* ---------------------------------------------------------------- claim C20
\* This step is the create/update step of the resource at the head of order
\* and it completes successfully: a 2xx response, a key migration or a no-op
\* skip, with the state saved where the step changed it.
StepCompletes ==
    /\ InStep
    /\ Len(log') = Len(log) + 1
    /\ log'[Len(log')].outcome \in {"ok", "migrated", "noop"}

\* Claim C20 (digest invariant): immediately after the create/update step of
\* resource R completes successfully, the state holds R's key and its
\* data_digest is the digest of R's data, resolved against the state the step
\* found, and R's revision.
C20_DigestInvariant ==
    [][StepCompletes =>
        LET R == resources[Head(order)]
            resolved == ResolveTemplates(R.data, state)
        IN  /\ Key(R) \in DOMAIN state'
            /\ resolved.ok
            /\ state'[Key(R)].data_digest =
                  dataDigestWithRevision(resolved.val, revisionForDigest(R.revision))]_vars

\* A run skipped its first resource as a no-op and moved the entry of its
\* second, renamed, resource by key migration; the state holds both keys with
\* the digests the steps computed.
C20_Witness ==
    /\ Len(log) = 2
    /\ log[1].outcome = "noop" /\ log[2].outcome = "migrated"
    /\ \A n \in 1..2 :
          /\ log[n].key \in DOMAIN state
          /\ state[log[n].key].data_digest = log[n].digest
          /\ log[n].digest # <<>>
\* ---------------------------------------------------------------- claim C21
\* Lint returned nil for the loaded batch: the pipeline went on past it.
LintPassed == pc \in {"apply", "delete", "done"} /\ result # "lint_err"

\* Claim C21 as stated (Lint dependency check): Lint returns nil only if every
\* entry of every resource's dependencies is non-empty and is the effective
\* name of another resource, a different document, of the batch.
C21_Original ==
    LintPassed =>
        \A i \in 1..Len(resources) : \A j \in 1..Len(resources[i].dependencies) :
            /\ resources[i].dependencies[j] # <<>>
            /\ \E k \in 1..Len(resources) :
                  k # i /\ EffectiveName(resources[k]) = resources[i].dependencies[j]

\* Claim C21, amended: Lint returns nil only if every entry of every
\* resource's dependencies is non-empty and is the effective name of some
\* resource of the batch, the resource itself included; a batch in which a
\* resource names itself passes Lint and is refused by topologicalOrder.
C21_LintDependencies ==
    /\ LintPassed =>
          \A i \in 1..Len(resources) : \A j \in 1..Len(resources[i].dependencies) :
              /\ resources[i].dependencies[j] # <<>>
              /\ \E k \in 1..Len(resources) :
                    EffectiveName(resources[k]) = resources[i].dependencies[j]
    /\ (LintPassed /\ vaultAddr # <<>>
            /\ \E i \in 1..Len(resources) :
                  EffectiveName(resources[i]) \in Range(resources[i].dependencies)) =>
          result = "cycle_err"

\* A batch whose second document lists the first and itself passed Lint and
\* was refused as a cycle.
C21_Witness ==
    /\ LintPassed /\ result = "cycle_err"
    /\ Len(resources) >= 2
    /\ EffectiveName(resources[2]) \in Range(resources[2].dependencies)
    /\ EffectiveName(resources[1]) \in Range(resources[2].dependencies)
\* ---------------------------------------------------------------- claim C22
\* The effective name as the claim spells it: the name, or the normalized
\* namespace concatenated with the normalized path.
NameOrNsPath(r) ==
    IF r.name # <<>> THEN r.name
    ELSE normalizeNamespace(r.namespace) \o normalizePath(r.path)

\* Claim C22 (Lint uniqueness): Lint returns nil only if the effective names
\* of the resources of the batch are pairwise distinct, so every batch that
\* reaches Apply has unique effective names.
C22_LintUniqueness ==
    LintPassed =>
        \A i, j \in 1..Len(resources) :
            i # j => NameOrNsPath(resources[i]) # NameOrNsPath(resources[j])

\* A batch of three documents on the same path, told apart only by their
\* names, passed Lint and reached the create/update loop.
C22_Witness ==
    /\ LintPassed /\ pc = "apply"
    /\ Len(resources) = 3
    /\ \A i \in 1..3 : normalizePath(resources[i].path) = <<"p">>
    /\ \A i \in 1..3 : resources[i].namespace = <<>>
\* ---------------------------------------------------------------- claim C23
\* The batch is the one of the run before with resource i given another
\* effective name and other data, its namespace and path kept.
RenamedWithData(i) ==
    /\ Len(resources) = Len(prevResources)
    /\ Key(resources[i]) # Key(prevResources[i])
    /\ resources[i].data # prevResources[i].data
    /\ resources = [prevResources EXCEPT ![i].name = resources[i].name,
                                         ![i].data = resources[i].data]

\* Every resource recorded in the state exists on the target at its stored
\* path.
StateMatchesTarget ==
    \A k \in DOMAIN state : TrimPrefixSlash(state[k].path) \in target

\* Claim C23 (rename together with data change), read for a batch of POST
\* resources, a first apply that swallowed no failure and a second apply that
\* returned nil without swallowing any: the second apply sends a POST under
\* the new key, then the DELETE that sweeps the old key, and after the run
\* every resource recorded in the state exists on the target at its stored
\* path.
C23_RenameWithDataChange ==
    \A i \in 1..Len(resources) :
        (/\ PrevSucceeded /\ pc = "done" /\ result = "nil" /\ Clean(log)
         /\ \A j \in 1..Len(resources) : normalizeMethod(resources[j].method) = "POST"
         /\ RenamedWithData(i)
         /\ Key(prevResources[i]) \in DOMAIN startState) =>
            /\ \E n \in 1..Len(log) : \E m \in (n + 1)..Len(log) :
                  /\ log[n].phase = "apply" /\ log[n].idx = i /\ log[n].sent
                  /\ log[n].method = "POST" /\ log[n].key = Key(resources[i])
                  /\ log[m].phase = "delete" /\ log[m].sent
                  /\ log[m].key = Key(prevResources[i])
            /\ StateMatchesTarget
\* ---------------------------------------------------------------- claim C24
\* The loop is at a resource whose key is in the state with the digest of its
\* resolved data and revision, and takes its step.
StepsOverMatch ==
    LET R == resources[Head(order)]
        resolved == ResolveTemplates(R.data, state)
    IN  /\ InStep /\ log' # log
        /\ resolved.ok
        /\ Key(R) \in DOMAIN state
        /\ state[Key(R)].data_digest =
              dataDigestWithRevision(resolved.val, revisionForDigest(R.revision))

\* Claim C24 (no-op short-circuit): the step of a batch resource whose key is
\* in the state with a data_digest equal to the digest of its resolved data
\* and revision sends no HTTP request, does not call the writer and leaves the
\* state, its entry included, and the target unchanged.
C24_NoopShortCircuit ==
    [][StepsOverMatch =>
        /\ Len(log') = Len(log) + 1
        /\ log'[Len(log')].idx = Head(order)
        /\ ~log'[Len(log')].sent
        /\ log'[Len(log')].outcome \notin {"save_err", "migrate_save_err", "migrated"}
        /\ saved' = saved
        /\ state' = state
        /\ target' = target]_vars

\* A second run requested its first resource, whose data had changed, and
\* skipped the second, whose entry it left as the first run stored it.
C24_Witness ==
    /\ Len(log) = 2
    /\ log[1].outcome = "ok" /\ log[2].outcome = "noop"
    /\ log[2].key \in DOMAIN startState
    /\ state[log[2].key] = startState[log[2].key]
    /\ Len(Requests(log)) = 1

\* ------------------------------------------------------------------ C25
\* The n-th step of the run is a DELETE sent for the stored key k.
DeleteSentAt(n, k) ==
    /\ log[n].phase = "delete" /\ log[n].key = k
    /\ log[n].sent /\ log[n].method = "DELETE"

\* C25: whenever a DELETE has been sent for a stored key k that left the
\* batch, then for every key dep in the dependencies stored with k that has
\* left the batch too, a DELETE for dep was sent earlier in the same run:
\* dependencies are deleted before their dependents.
C25_DeleteOrder ==
    \A m \in 1..Len(log) : \A k \in Orphans :
        DeleteSentAt(m, k) =>
            \A dep \in Range(startState[k].dependencies) \cap Orphans :
                \E n \in 1..(m - 1) : DeleteSentAt(n, dep)

\* Two stored keys left the batch, one naming the other as a dependency,
\* and both DELETEs have been sent.
C25_Witness ==
    \E m \in 1..Len(log) : \E k \in Orphans :
        /\ DeleteSentAt(m, k)
        /\ \E dep \in (Range(startState[k].dependencies) \cap Orphans) \ {k} :
              \E n \in 1..(m - 1) : DeleteSentAt(n, dep)

\* ------------------------------------------------------------------ C26
\* The stored key k, to delete, lies on a cycle of stored dependencies
\* among the keys to delete.
OnStoredCycle(k) ==
    \E d \in Range(startState[k].dependencies) \cap Orphans :
        k \in StoredReach(startState, Orphans, {d})

\* k lies on such a cycle or depends, directly or not, on a key that does.
CycleBound(k) ==
    \E c \in StoredReach(startState, Orphans, {k}) : OnStoredCycle(c)

\* No step of the run has failed without being ignored.
NoStepFailed ==
    \A n \in 1..Len(log) : IsFailure(log[n]) => log[n].ignored

\* C26: a stored key to delete that lies on a cycle of stored dependencies,
\* or depends on a key that does, gets no delete step at all, stays in the
\* state in memory and in storage, and raises no error: a run in which no
\* step failed ends with nil.
C26_CyclicComponentDropped ==
    \A k \in Orphans :
        CycleBound(k) =>
            /\ \A n \in 1..Len(log) : ~(log[n].phase = "delete" /\ log[n].key = k)
            /\ k \in DOMAIN state
            /\ k \in DOMAIN saved
            /\ (pc = "done" /\ NoStepFailed => result = "nil")

\* A run ended with nil while two stored keys on a cycle, and a third that
\* depends on one of them, were to delete.
C26_Witness ==
    /\ pc = "done" /\ result = "nil"
    /\ \E k \in Orphans : CycleBound(k) /\ ~OnStoredCycle(k)
    /\ \E k \in Orphans : OnStoredCycle(k)

\* ------------------------------------------------------------------ C27
\* Lint, the configuration check and topologicalOrder have all passed.
OrderComputed ==
    /\ pc \in {"apply", "delete", "done"}
    /\ result \notin {"lint_err", "config_err", "cycle_err"}

PosInOrder(i) == CHOOSE x \in 1..Len(order) : order[x] = i

\* The position in the order after which resource i enters the queue: 0 for
\* a resource without dependencies, else the position of the last of its
\* dependencies.
ReadyAt(i) ==
    LET ds == {PosInOrder(j) : j \in {j \in 1..Len(resources) : DependsOn(resources, i, j)}}
    IN  IF ds = {} THEN 0 ELSE CHOOSE m \in ds : \A d \in ds : d <= m

\* C27: the apply order of a batch that passed topologicalOrder is a
\* permutation of all indices of the batch; it is the list order when no
\* resource has a dependency; and it is first in, first out: resources come
\* in the order in which they entered the queue (those without dependencies
\* first, the others when their last dependency was emitted), resources
\* that entered together in index order.
C27_TopologicalTieBreaking ==
    OrderComputed =>
        /\ Len(order) = Len(resources)
        /\ Range(order) = 1..Len(resources)
        /\ (\A i \in 1..Len(resources) : resources[i].dependencies = <<>>)
              => order = Indices(Len(resources))
        /\ \A x, y \in 1..Len(order) :
              x < y =>
                \/ ReadyAt(order[x]) < ReadyAt(order[y])
                \/ /\ ReadyAt(order[x]) = ReadyAt(order[y])
                   /\ order[x] < order[y]

\* A batch of three whose first resource depends on the third: the second
\* and third keep their list order and the first comes last.
C27_Witness ==
    /\ OrderComputed
    /\ Len(resources) = 3
    /\ DependsOn(resources, 1, 3)
    /\ order = <<2, 3, 1>>

\* ------------------------------------------------------------------ C28
\* The position of the last-applied commit on the branch, 0 when the branch
\* does not hold it (or nothing was applied yet).
BoundaryPos ==
    IF lastFinished = <<>> \/ \A i \in 1..Len(repo) : repo[i].hash # lastFinished[1].CommitHash
    THEN 0
    ELSE CHOOSE i \in 1..Len(repo) : repo[i].hash = lastFinished[1].CommitHash

\* C28: a poll that finds the last-applied commit on the branch selects
\* neither that commit nor any commit behind it (farther from HEAD), and
\* when HEAD is the last-applied commit no step selects a commit, so no
\* apply starts.
C28_BoundaryStop ==
    [][/\ (Selects /\ BoundaryPos > 0) =>
             \A i \in BoundaryPos..Len(repo) : selected'[1].CommitHash # repo[i].hash
       /\ BoundaryPos = 1 => ~Selects]_vars

\* A poll with the last-applied commit behind HEAD has walked to it and
\* returned nothing, although the last-applied commit itself carries the
\* required signatures and is dated neither in the future nor before itself.
C28_Witness ==
    /\ gpc = "idle" /\ selected = <<>> /\ cloned = repo
    /\ BoundaryPos > 1
    /\ Cardinality(repo[BoundaryPos].signers \cap TrustedKeys) >= required
    /\ repo[BoundaryPos].date <= now

\* ------------------------------------------------------------------ C29
\* A poll: the poller is idle, the branch is cloned as it stands and walked.
Polls ==
    /\ gpc = "idle" /\ repo # <<>>
    /\ cloned' = repo /\ failed' = FALSE
    /\ UNCHANGED <<pushed, repo, lastFinished, now>>

\* C29: a poll never selects a commit whose committer timestamp is later
\* than the time of the walk, whatever its signatures, and such a commit
\* does not end the walk: a poll selects a commit whenever a commit newer
\* than the last-applied one qualifies.
C29_ClockSkewGuard ==
    [][/\ Selects => selected'[1].CommitDate <= now
       /\ (Polls /\ Qualifying # {}) => Selects]_vars

\* The poll has passed over a commit that carries the required signatures
\* and is dated in the future, and has selected a commit behind it.
C29_Witness ==
    /\ gpc = "selected" /\ cloned = repo
    /\ \E i, j \in 1..Len(repo) :
          /\ i < j
          /\ repo[j].hash = selected[1].CommitHash
          /\ Cardinality(repo[i].signers \cap TrustedKeys) >= required
          /\ repo[i].date > now

\* ------------------------------------------------------------------ C30
\* C30: a key migration removes only a state key that is not the effective
\* name of a resource of the batch, so a run that ends with nil and without
\* a failed step leaves every resource of the batch its own state entry.
C30_MigrationSparesBatchKeys ==
    /\ \A n \in 1..Len(log) :
          log[n].outcome \in {"migrated", "migrate_save_err"} =>
              log[n].old \notin currentKeys
    /\ (pc = "done" /\ result = "nil" /\ Clean(log)) =>
          \A i \in 1..Len(resources) : Key(resources[i]) \in DOMAIN state

\* ------------------------------------------------------------------ C31
\* The batch passes Lint and its dependency graph has no cycle.
AcyclicLintClean(b) == Lint(b) /\ ~HasCycle(b)

\* C31: when the batch of this run and the batch of the run before are
\* lint-clean and acyclic, the dependencies stored in the state, in memory
\* and in storage, form no cycle.
C31_StoredGraphAcyclic ==
    (AcyclicLintClean(resources) /\ AcyclicLintClean(prevResources)) =>
        /\ StoredAcyclic(state, DOMAIN state)
        /\ StoredAcyclic(saved, DOMAIN saved)

\* ------------------------------------------------------------------ C32
\* The run has ended with nil and no step of it failed.
EndedClean == pc = "done" /\ result = "nil" /\ Clean(log)

\* The entry e carries the dependencies and the ignore_failures flag of v.
SameDeclaration(e, v) ==
    /\ e.dependencies = v.dependencies
    /\ e.ignore_failures = v.ignore_failures

\* Claim C32 as stated: after a run that ended with nil and without an
\* ignored failure, the state entry of every batch resource carries the
\* dependencies and the ignore_failures flag the batch declares for it.
C32_Original ==
    EndedClean =>
        \A i \in 1..Len(resources) :
            Key(resources[i]) \in DOMAIN state =>
                SameDeclaration(state[Key(resources[i])], resources[i])

\* Claim C32, amended: after such a run the state entry of a batch resource
\* carries the declared dependencies and ignore_failures flag when the
\* resource was requested in this run; an entry skipped as a no-op is the
\* entry the step found, and an entry produced by a key migration carries
\* the two fields of the entry it took, whatever the batch declares.
C32_StateAsApplied ==
    EndedClean =>
        \A n \in 1..Len(log) :
            (log[n].phase = "apply" /\ log[n].key \in DOMAIN state) =>
                /\ log[n].outcome = "ok" =>
                      SameDeclaration(state[log[n].key], resources[log[n].idx])
                /\ log[n].outcome = "noop" =>
                      state[log[n].key] = log[n].persisted[log[n].key]
                /\ log[n].outcome = "migrated" =>
                      SameDeclaration(state[log[n].key],
                                      log[n].persisted[log[n].old])

\* A run ended with nil and no failure, and a resource skipped as a no-op
\* is stored with dependencies other than the batch declares.
C32_Witness ==
    /\ EndedClean
    /\ \E n \in 1..Len(log) :
          /\ log[n].phase = "apply" /\ log[n].outcome = "noop"
          /\ log[n].key \in DOMAIN state
          /\ state[log[n].key].dependencies # resources[log[n].idx].dependencies

\* ------------------------------------------------------------------ C33
\* Apply returned nil.
ReturnedNil == pc = "done" /\ result = "nil"

\* Claim C33 as stated: whenever Apply returns nil, the state last saved by
\* the writer equals the final in-memory state, whichever writer calls
\* failed on resources with ignore_failures set.
C33_Original == ReturnedNil => saved = state

\* Claim C33, amended: when Apply returns nil, the state last saved equals
\* the final in-memory state exactly when the last call of the writer in
\* the run, if any, succeeded; a writer failure swallowed under
\* ignore_failures with no successful save after it leaves storage behind
\* the in-memory state.
C33_PersistedUnlessLastSaveFailed ==
    ReturnedNil => (saved = state <=> ~LastSaveFailed)

\* Apply returned nil after a writer failure that ignore_failures swallowed
\* and a later save that stored the whole state.
C33_Witness ==
    /\ ReturnedNil /\ ~LastSaveFailed
    /\ \E n \in 1..Len(log) :
          log[n].outcome \in {"save_err", "migrate_save_err"} /\ log[n].ignored
    /\ saved = state

\* ------------------------------------------------------------------ C34
\* A create/update step is taken: the log grows by one entry of that phase.
StepTaken ==
    /\ Len(log') = Len(log) + 1
    /\ log'[Len(log')].phase = "apply"

\* Key k is in both states with the same entry, or in neither.
EntryUnchanged(k) ==
    /\ k \in DOMAIN state <=> k \in DOMAIN state'
    /\ k \in DOMAIN state => state'[k] = state[k]

\* C34: a create/update step of a resource with key K leaves every state
\* entry other than K unchanged, except that a key-migration step removes
\* the one key it migrates from; and a step that ends in a template error,
\* an encode error, a request that cannot be built, a transport error or a
\* non-2xx response changes neither the state in memory nor the saved state.
C34_StepFrame ==
    [][StepTaken =>
        LET e == log'[Len(log')]
        IN  /\ \A k \in (DOMAIN state \cup DOMAIN state') \ {e.key, e.old} :
                  EntryUnchanged(k)
            /\ e.old # NoKey =>
                  /\ e.outcome \in {"migrated", "migrate_save_err"}
                  /\ e.old # e.key
                  /\ e.old \in DOMAIN state /\ e.old \notin DOMAIN state'
            /\ e.outcome \in {"template_err", "encode_err", "new_request_err",
                               "transport_err", "http_err"} =>
                  state' = state /\ saved' = saved]_vars

\* A key migration has moved an entry to the key of its resource while
\* another entry, stored before the run, is still as it was; and another
\* step of the run has failed before it changed anything.
C34_Witness ==
    /\ \E n \in 1..Len(log) :
          /\ log[n].outcome = "migrated"
          /\ log[n].old \notin DOMAIN state
          /\ log[n].key \in DOMAIN state
          /\ \E k \in DOMAIN state \ {log[n].key} :
                k \in DOMAIN startState /\ state[k] = startState[k]
    /\ \E n \in 1..Len(log) :
          /\ log[n].phase = "apply"
          /\ log[n].outcome \in {"template_err", "encode_err", "new_request_err",
                                  "transport_err", "http_err"}

\* ------------------------------------------------------------------ C35
\* C35: in the log of a run every step of the delete pass comes after every
\* create/update step; a DELETE request is sent only in the delete pass and
\* only for a stored key that no resource of the batch has; and when a
\* create/update step ended the run with its error, the run has no delete
\* step.
C35_CreateBeforeDelete ==
    /\ \A m, n \in 1..Len(log) :
          (log[n].phase = "apply" /\ log[m].phase = "delete") => n < m
    /\ \A m \in 1..Len(log) :
          (log[m].sent /\ log[m].method = "DELETE") =>
              /\ log[m].phase = "delete"
              /\ log[m].key \notin currentKeys
              /\ log[m].key \in DOMAIN startState
    /\ \A n \in 1..Len(log) :
          (log[n].phase = "apply" /\ IsFailure(log[n]) /\ ~log[n].ignored) =>
              \A m \in 1..Len(log) : log[m].phase # "delete"

\* A run has sent a create/update request and, after it, a DELETE for a
\* stored key that left the batch.
C35_Witness ==
    \E n, m \in 1..Len(log) :
        /\ n < m
        /\ log[n].phase = "apply" /\ log[n].sent
        /\ log[m].phase = "delete" /\ log[m].sent /\ log[m].method = "DELETE"
        /\ log[m].key \in DOMAIN startState \ currentKeys

====
